---- MODULE Spec2Model ----
(***************************************************************************)
(* A model of the plotter package (src/python/plotter): the registration   *)
(* of processes, histogram specs and regions on a Plotter, and the pipeline *)
(* Plotter.run(): book and fill the fragments, merge them per (region,      *)
(* process name), fold underflow/overflow, persist, and compose each plot   *)
(* (stack / overlay groups, stack total, panel elements).                   *)
(*                                                                         *)
(* A ROOT histogram (TH1D) is modelled by its bin contents and its sums of *)
(* squared weights (the bin variances) over the slots 0..nbins+1, slot 0   *)
(* being the underflow and slot nbins+1 the overflow.  Weights are small   *)
(* naturals, so that sums are exact.                                       *)
(***************************************************************************)
EXTENDS Integers, Sequences, FiniteSets, TLC

VARIABLES
    regions,            \* Plotter.regions: sequence of Region
    histograms,         \* Plotter.histograms: sequence of Histogram (1D specs)
    histograms2D,       \* Plotter.histograms2D: sequence of Histogram2D
    processes,          \* Plotter.processes: sequence of Process
    unique_processes,   \* Plotter.unique_processes: sequence of ProcessTemplate
    panels,             \* the Panel objects (shared by reference by the specs)
    log,                \* what the loggers emitted at WARNING or above
    pc,                 \* position of Plotter.run()
    cursor,             \* index of the next plot of _make_plots
    raised,             \* the exception that left run(), if any
    output_file,        \* keys written to merged_histograms.root, in order
    plots,              \* the plots saved by _make_plots, in order
    trace,              \* history of the steps of the current run
    runs,               \* number of run() calls started
    first_run,          \* merged histograms as the first run left them
    call,               \* a call of a panel function: its arguments and what it returned
    heap,               \* the reference-line lists of the Panel objects, by identity
    plotters            \* number of Plotter objects constructed

confVars == <<regions, histograms, histograms2D, processes, unique_processes, panels>>
runVars  == <<pc, cursor, raised, output_file, plots, trace, runs, first_run, call, heap, plotters>>
vars     == <<confVars, log, runVars>>

----------------------------------------------------------------------------
(* Bounds of the model *)

MaxProcesses  == 2    \* add_process calls
MaxHistograms == 2    \* add_histogram calls
MaxRegions    == 1    \* add_region calls
MaxRuns       == 2    \* run() calls
MaxX          == 3    \* the events' values of the plotted variable are 0..MaxX
MaxW          == 2    \* the events' weights are 1..MaxW
MaxBins       == 2    \* in-range bins of a histogram spec
MaxEvents     == 2    \* events of a dataset
MaxPanels     == 3    \* Panel objects constructed one after the other
MaxLines      == 2    \* reference lines given to a Panel
MaxPlotters   == 2    \* Plotter objects constructed one after the other
MaxAdds       == 3    \* calls of add_region, and of add_histogram for each kind of spec

----------------------------------------------------------------------------
(* Python values *)

\* Optional[List[str]]: None, or a list (only membership is ever tested)
NoneList    == [is_none |-> TRUE,  names |-> {}]
ListOf(S)   == [is_none |-> FALSE, names |-> S]
\* `if lst:` -- None and the empty list are both falsy
Truthy(lst) == ~lst.is_none /\ lst.names # {}

\* dict
EmptyDict     == <<>>
Put(d, k, x)  == [y \in (DOMAIN d) \cup {k} |-> IF y = k THEN x ELSE d[y]]

\* list.append of a log record
Warn(msg)   == <<[level |-> "WARNING", msg |-> msg]>>
Error(msg)  == <<[level |-> "ERROR", msg |-> msg]>>

RECURSIVE SeqToSet(_)
SeqToSet(s) == IF s = <<>> THEN {} ELSE {Head(s)} \cup SeqToSet(Tail(s))

Names(s) == {s[i].name : i \in DOMAIN s}

----------------------------------------------------------------------------
(* ROOT histograms, as the plotter uses them *)

Slots(n) == 0..(n + 1)

Clone(h) == h

Reset(h) ==
    [h EXCEPT !.content = [s \in Slots(h.nbins) |-> 0],
              !.sumw2   = [s \in Slots(h.nbins) |-> 0]]

\* a sum that adds the contents and keeps the first histogram's variances
AddContentsOnly(h, g) ==
    [h EXCEPT !.content = [s \in Slots(h.nbins) |-> h.content[s] + g.content[s]]]

\* TH1.Add(g): contents add, variances add
Add(h, g) ==
    [h EXCEPT !.content = [s \in Slots(h.nbins) |-> h.content[s] + g.content[s]],
              !.sumw2   = [s \in Slots(h.nbins) |-> h.sumw2[s] + g.sumw2[s]]]

GetNbinsX(h)          == h.nbins
GetBinContent(h, i)   == h.content[i]
SetBinContent(h, i, x) == [h EXCEPT !.content[i] = x]
\* a bin error is the square root of the bin's variance; it is kept as the
\* number it is the root of
GetBinError(h, i)     == [root_of |-> h.sumw2[i]]
SetBinError(h, i, e)  == [h EXCEPT !.sumw2[i] = e.root_of]
ZeroError             == [root_of |-> 0]

RECURSIVE SumSlots(_, _)
SumSlots(f, S) ==
    IF S = {} THEN 0
    ELSE LET s == CHOOSE s \in S : TRUE IN f[s] + SumSlots(f, S \ {s})

\* TH1.Integral(): the in-range bins 1..nbins
Integral(h) == SumSlots(h.content, 1..h.nbins)

----------------------------------------------------------------------------
(* The fill engine (RDataFrame), as _make_hists calls it *)

\* the row filter of a region, evaluated on one event
Passes(e, selection) ==
    CASE selection = "x>=2" -> e.x >= 2
      [] selection = "w>1"  -> e.w > 1
      [] OTHER              -> TRUE

\* TAxis::FindBin for the uniform binning (nbins, low, high)
FindBin(binning, x) ==
    IF x < binning.low THEN 0
    ELSE IF x >= binning.high THEN binning.nbins + 1
    ELSE 1 + ((x - binning.low) * binning.nbins) \div (binning.high - binning.low)

RECURSIVE SumWeights(_, _)
SumWeights(E, squared) ==
    IF E = {} THEN 0
    ELSE LET e == CHOOSE e \in E : TRUE
         IN  (IF squared THEN e.w * e.w ELSE e.w) + SumWeights(E \ {e}, squared)

\* df.Filter(selection).Define(...).Histo1D(model, "plot_var", "total_weight")
Histo1D(df, selection, binning) ==
    LET passing == IF selection # "" THEN {e \in df : Passes(e, selection)} ELSE df
        In(s)   == {e \in passing : FindBin(binning, e.x) = s}
    IN  [nbins   |-> binning.nbins,
         content |-> [s \in Slots(binning.nbins) |-> SumWeights(In(s), FALSE)],
         sumw2   |-> [s \in Slots(binning.nbins) |-> SumWeights(In(s), TRUE)]]

----------------------------------------------------------------------------
(* Styles and the objects the user constructs *)

STACKED == "stacked"
LINE    == "line"
POINTS  == "points"

ProcessTemplate(name, color, style, error_bars, label) ==
    [name |-> name, color |-> color, style |-> style,
     error_bars |-> error_bars, label |-> label]

Process(name, df, color, style, error_bars, label) ==
    [name |-> name, df |-> df, color |-> color, style |-> style,
     error_bars |-> error_bars, label |-> label]

Region(name, selection, include_processes, exclude_processes, include_histograms, exclude_histograms) ==
    [name |-> name, selection |-> selection,
     include_processes |-> include_processes,
     exclude_processes |-> exclude_processes,
     include_histograms |-> include_histograms,
     exclude_histograms |-> exclude_histograms]

\* Histogram.__init__: the fragment list and the merged map start empty
Histogram(name, binning, panel, underflow, overflow, include_processes, exclude_processes) ==
    [name |-> name, binning |-> binning, panel |-> panel,
     underflow |-> underflow, overflow |-> overflow,
     include_processes |-> include_processes,
     exclude_processes |-> exclude_processes,
     histograms |-> <<>>,
     merged_histograms |-> EmptyDict]

\* Histogram2D.__init__: panel is the index of a Panel object, 0 for None
Histogram2D(name, binning_x, binning_y, panel, include_processes, exclude_processes) ==
    [name |-> name, binning_x |-> binning_x, binning_y |-> binning_y, panel |-> panel,
     include_processes |-> include_processes, exclude_processes |-> exclude_processes]

Binning(n, lo, hi) == [nbins |-> n, low |-> lo, high |-> hi]

\* Optional[TH1]
None == [is_none |-> TRUE]

\* PanelElement.__init__: the function defaults by style, the colour to kBlack,
\* and no histogram is held yet
kBlack == 1
DefaultFunc(style) == IF style = STACKED THEN "_error_band" ELSE "_divide"
PanelElement(values, func, color, style, error_bars) ==
    [values |-> values,
     func |-> IF func # "" THEN func ELSE DefaultFunc(style),
     color |-> IF color # 0 THEN color ELSE kBlack,
     style |-> style, error_bars |-> error_bars,
     histogram |-> None]

\* the default arguments reference_line_heights = [] and reference_line_colors
\* = [] of Panel.__init__: two list objects, made once, when the class is defined
DefaultHeights == 1
DefaultColors  == 2
DefaultLists   == <<(<<>>), (<<>>)>>

\* a constructor that leaves the lists it is given as they are
PanelInitKeepsLists(elements, heights, colors, hp, lg) ==
    [panel |-> [elements |-> elements, reference_line_heights |-> heights,
                reference_line_colors |-> colors],
     heap |-> hp, log |-> lg]

\* Panel.__init__ with the lists heights and colors (list objects of hp): the
\* object, the lists and the log it leaves.  Padding appends to the list it was
\* given; truncating binds the attribute to a new list, the slice.
PanelInit(elements, heights, colors, hp, lg) ==
    LET nh == Len(hp[heights])
        nc == Len(hp[colors])
    IN  IF nh > nc
        THEN [panel |-> [elements |-> elements, reference_line_heights |-> heights,
                         reference_line_colors |-> colors],
              heap  |-> [hp EXCEPT ![colors] = @ \o [k \in 1..(nh - nc) |-> kBlack]],
              log   |-> lg \o Warn("more reference_line_heights than reference_line_colors provided. Padding with ROOT.kBlack.")]
        ELSE IF nh < nc
        THEN [panel |-> [elements |-> elements, reference_line_heights |-> heights,
                         reference_line_colors |-> Len(hp) + 1],
              heap  |-> Append(hp, SubSeq(hp[colors], 1, nh)),
              log   |-> lg \o Warn("more reference_line_colors than reference_line_heights provided. Truncating reference_line_colors.")]
        ELSE [panel |-> [elements |-> elements, reference_line_heights |-> heights,
                         reference_line_colors |-> colors],
              heap  |-> hp, log |-> lg]

\* Panel(elements): both reference-line arguments left to their defaults
Panel(elements) ==
    PanelInit(elements, DefaultHeights, DefaultColors, DefaultLists, <<>>).panel

----------------------------------------------------------------------------
(* Plotter: registration *)

NoException == [exc |-> "", line |-> 0, hist |-> "", region |-> ""]

\* no panel function has been called
NoCall == [func |-> "", hists |-> <<>>, returned |-> None, after |-> <<>>]

\* Plotter.__init__, and the Panel objects the user has constructed
InitPlotter(pnls) ==
    /\ regions = <<>>
    /\ histograms = <<>>
    /\ histograms2D = <<>>
    /\ processes = <<>>
    /\ unique_processes = <<>>
    /\ panels = pnls
    /\ log = <<>>
    /\ pc = "idle"
    /\ cursor = 0
    /\ raised = NoException
    /\ output_file = <<>>
    /\ plots = <<>>
    /\ trace = <<>>
    /\ runs = 0
    /\ first_run = <<>>
    /\ heap = DefaultLists
    /\ plotters = 1
    /\ call = NoCall

Init == InitPlotter(<<>>)

Registering == pc = "idle" /\ runs = 0

\* the number of records of the log that carry a message
Logged(lg, msg) == Cardinality({i \in DOMAIN lg : lg[i].msg = msg})

\* the calls made so far: every call appends an entry, and one that replaces
\* an entry of the same name logs the warning as well
RegionCalls    == Len(regions) + Logged(log, "region already exists")
HistogramCalls == Len(histograms) + Logged(log, "histogram already exists")

\* a list that keeps the entries of the name it is to replace
KeepName(s, name) == s

RemoveName(s, name) == SelectSeq(s, LAMBDA r : r.name # name)

\* Plotter.add_region
add_region(region) ==
    /\ Registering
    /\ RegionCalls < MaxAdds
    /\ IF region.name \in Names(regions)
       THEN /\ log' = log \o Warn("region already exists")
            /\ regions' = Append(RemoveName(regions, region.name), region)
       ELSE /\ log' = log
            /\ regions' = Append(regions, region)
    /\ UNCHANGED <<histograms, histograms2D, processes, unique_processes, panels, runVars>>

\* Plotter.add_histogram, for a Histogram (1D)
add_histogram(histogram) ==
    /\ Registering
    /\ HistogramCalls < MaxAdds
    /\ IF histogram.name \in Names(histograms)
       THEN /\ log' = log \o Warn("histogram already exists")
            /\ histograms' = Append(RemoveName(histograms, histogram.name), histogram)
       ELSE /\ log' = log
            /\ histograms' = Append(histograms, histogram)
    /\ UNCHANGED <<regions, histograms2D, processes, unique_processes, panels, runVars>>

Histogram2DCalls == Len(histograms2D) + Logged(log, "2D histogram already exists")

\* Plotter.add_histogram, for a Histogram2D: its panel is dropped
add_histogram2D(histogram) ==
    /\ Registering
    /\ Histogram2DCalls < MaxAdds
    /\ LET dropped == IF histogram.panel # 0 THEN Warn("panel of 2D histogram not implemented") ELSE <<>>
           added   == [histogram EXCEPT !.panel = 0]
       IN  IF histogram.name \in Names(histograms2D)
           THEN /\ log' = log \o dropped \o Warn("2D histogram already exists")
                /\ histograms2D' = Append(RemoveName(histograms2D, histogram.name), added)
           ELSE /\ log' = log \o dropped
                /\ histograms2D' = Append(histograms2D, added)
    /\ UNCHANGED <<regions, histograms, processes, unique_processes, panels, runVars>>

\* the warnings of add_process for a process whose name has a template
TemplateWarnings(process, t) ==
       (IF process.color # t.color THEN Warn("different color") ELSE <<>>)
    \o (IF process.style # t.style THEN Warn("different style") ELSE <<>>)
    \o (IF process.error_bars # t.error_bars THEN Warn("different error bars") ELSE <<>>)
    \o (IF process.label # t.label THEN Warn("different label") ELSE <<>>)

\* a registration in which the template of a name follows the last process
add_process_last_wins(process) ==
    /\ Registering
    /\ Len(processes) < MaxProcesses
    /\ unique_processes' = Append(RemoveName(unique_processes, process.name),
            ProcessTemplate(process.name, process.color, process.style,
                            process.error_bars, process.label))
    /\ log' = log
    /\ processes' = Append(processes, process)
    /\ UNCHANGED <<regions, histograms, histograms2D, panels, runVars>>

\* a registration that drops the process whose name has a template
add_process_new_names(process) ==
    /\ Registering
    /\ Len(processes) + Len(log) < MaxProcesses
    /\ IF process.name \notin Names(unique_processes)
       THEN /\ unique_processes' = Append(unique_processes,
                  ProcessTemplate(process.name, process.color, process.style,
                                  process.error_bars, process.label))
            /\ processes' = Append(processes, process)
            /\ log' = log
       ELSE /\ unique_processes' = unique_processes
            /\ processes' = processes
            /\ log' = log \o Warn("process already exists")
    /\ UNCHANGED <<regions, histograms, histograms2D, panels, runVars>>

\* Plotter.add_process
add_process(process) ==
    /\ Registering
    /\ Len(processes) < MaxProcesses
    /\ IF process.name \notin Names(unique_processes)
       THEN /\ unique_processes' = Append(unique_processes,
                  ProcessTemplate(process.name, process.color, process.style,
                                  process.error_bars, process.label))
            /\ log' = log
       ELSE /\ unique_processes' = unique_processes
            /\ LET t == CHOOSE t \in SeqToSet(unique_processes) : t.name = process.name
               IN  log' = log \o TemplateWarnings(process, t)
    /\ processes' = Append(processes, process)
    /\ UNCHANGED <<regions, histograms, histograms2D, panels, runVars>>

----------------------------------------------------------------------------
(* Plotter.run(): filling *)

_filter_histograms(hs, include_histograms, exclude_histograms) ==
    IF Truthy(include_histograms)
    THEN SelectSeq(hs, LAMBDA h : h.name \in include_histograms.names)
    ELSE IF Truthy(exclude_histograms)
    THEN SelectSeq(hs, LAMBDA h : h.name \notin exclude_histograms.names)
    ELSE hs

_filter_processes(ps, include_processes, exclude_processes) ==
    IF Truthy(include_processes)
    THEN SelectSeq(ps, LAMBDA p : p.name \in include_processes.names)
    ELSE IF Truthy(exclude_processes)
    THEN SelectSeq(ps, LAMBDA p : p.name \notin exclude_processes.names)
    ELSE ps

\* the warning _filter_histograms and _filter_processes log on an empty result
FilterWarning(filtered, msg) == IF Len(filtered) = 0 THEN Warn(msg) ELSE <<>>

\* the loop over the selected processes: one booked fill per process
BookProcesses(hist, region, processes_to_use) ==
    [i \in 1..Len(processes_to_use) |->
        [region   |-> region.name,
         proc     |-> processes_to_use[i].name,
         h        |-> Histo1D(processes_to_use[i].df, region.selection, hist.binning),
         realized |-> FALSE]]

\* the loop over the histograms selected for a region; processes_to_use is
\* the variable of that name, which each pass of the loop assigns again
RECURSIVE BookHistograms(_, _, _, _)
BookHistograms(names, region, processes_to_use, st) ==
    IF names = <<>> THEN st
    ELSE
    LET hist  == CHOOSE h \in SeqToSet(st.histograms) : h.name = Head(names)
        ptu   == _filter_processes(processes_to_use, hist.include_processes, hist.exclude_processes)
        lg    == st.log \o FilterWarning(ptu, "no processes found after filtering")
    IN  IF Len(ptu) = 0
        THEN BookHistograms(Tail(names), region, ptu,
                 [st EXCEPT !.log = lg \o Warn("no processes for histogram in region")])
        ELSE BookHistograms(Tail(names), region, ptu,
                 [histograms |->
                      [i \in DOMAIN st.histograms |->
                          IF st.histograms[i].name = hist.name
                          THEN [st.histograms[i] EXCEPT
                                    !.histograms = @ \o BookProcesses(hist, region, ptu)]
                          ELSE st.histograms[i]],
                  log |-> lg])

\* the loop over the regions
RECURSIVE BookRegions(_, _, _)
BookRegions(rs, ps, st) ==
    IF rs = <<>> THEN st
    ELSE
    LET region == Head(rs)
        histograms_to_use == _filter_histograms(st.histograms, region.include_histograms, region.exclude_histograms)
        lg1 == st.log \o FilterWarning(histograms_to_use, "no histograms found after filtering")
        processes_to_use == _filter_processes(ps, region.include_processes, region.exclude_processes)
        lg2 == lg1 \o FilterWarning(processes_to_use, "no processes found after filtering")
    IN  IF Len(histograms_to_use) = 0
        THEN BookRegions(Tail(rs), ps, [st EXCEPT !.log = lg1 \o Warn("no histograms for region")])
        ELSE IF Len(processes_to_use) = 0
        THEN BookRegions(Tail(rs), ps, [st EXCEPT !.log = lg2 \o Warn("no processes for region")])
        ELSE BookRegions(Tail(rs), ps,
                 BookHistograms([i \in DOMAIN histograms_to_use |-> histograms_to_use[i].name],
                                region, processes_to_use, [st EXCEPT !.log = lg2]))

\* an evaluation that realizes only the first fill booked for each spec
RunFirstGraph(hs) ==
    [i \in DOMAIN hs |->
        [hs[i] EXCEPT !.histograms =
            [k \in DOMAIN @ |-> IF k = 1 THEN [@[k] EXCEPT !.realized = TRUE] ELSE @[k]]]]

\* ROOT.RDF.RunGraphs(actions): the fills booked by this call are realized
RunGraphs(hs) ==
    [i \in DOMAIN hs |->
        [hs[i] EXCEPT !.histograms =
            [k \in DOMAIN @ |-> [@[k] EXCEPT !.realized = TRUE]]]]

\* Plotter._make_hists
_make_hists(rs, hs, ps, lg) ==
    LET booked == BookRegions(rs, ps, [histograms |-> hs, log |-> lg])
    IN  [histograms |-> RunGraphs(booked.histograms), log |-> booked.log]

----------------------------------------------------------------------------
(* Plotter.run(): merging and folding *)

\* Plotter._merge_hists: the loop over hist.histograms
RECURSIVE MergeFragments(_, _)
MergeFragments(frags, merged) ==
    IF frags = <<>> THEN merged
    ELSE
    LET f  == Head(frags)
        m1 == IF f.region \notin DOMAIN merged THEN Put(merged, f.region, EmptyDict) ELSE merged
        m2 == IF f.proc \notin DOMAIN m1[f.region]
              THEN Put(m1, f.region, Put(m1[f.region], f.proc, Clone(f.h)))
              ELSE Put(m1, f.region, Put(m1[f.region], f.proc, Add(m1[f.region][f.proc], Clone(f.h))))
    IN  MergeFragments(Tail(frags), m2)

_merge_hists(hist) == MergeFragments(hist.histograms, EmptyDict)

\* a fold that leaves the underflow and overflow slots as they were
FoldKeepsSlots(h, underflow, overflow) ==
    LET n     == GetNbinsX(h)
        temp0 == Reset(Clone(h))
        temp1 == IF underflow
                 THEN SetBinError(SetBinContent(temp0, 1, GetBinContent(h, 0)), 1, GetBinError(h, 0))
                 ELSE temp0
        temp2 == IF overflow
                 THEN SetBinError(SetBinContent(temp1, n, GetBinContent(h, n + 1)), n, GetBinError(h, n + 1))
                 ELSE temp1
    IN  Add(h, temp2)

\* the body of the loops of _add_underflow_overflow, for one merged histogram
FoldHistogram(h, underflow, overflow) ==
    LET n     == GetNbinsX(h)
        temp0 == Reset(Clone(h))
        temp1 == IF underflow
                 THEN SetBinError(SetBinContent(temp0, 1, GetBinContent(h, 0)), 1, GetBinError(h, 0))
                 ELSE temp0
        h1    == IF underflow
                 THEN SetBinError(SetBinContent(h, 0, 0), 0, ZeroError)
                 ELSE h
        temp2 == IF overflow
                 THEN SetBinError(SetBinContent(temp1, GetNbinsX(temp1), GetBinContent(h1, n + 1)),
                                  GetNbinsX(temp1), GetBinError(h1, n + 1))
                 ELSE temp1
        h2    == IF overflow
                 THEN SetBinError(SetBinContent(h1, n + 1, 0), n + 1, ZeroError)
                 ELSE h1
    IN  Add(h2, temp2)

\* Plotter._add_underflow_overflow
_add_underflow_overflow(hist) ==
    IF ~hist.underflow /\ ~hist.overflow THEN hist
    ELSE [hist EXCEPT !.merged_histograms =
            [r \in DOMAIN @ |->
                [p \in DOMAIN @[r] |-> FoldHistogram(@[r][p], hist.underflow, hist.overflow)]]]

----------------------------------------------------------------------------
(* Plot composition: groups, stack total, panel elements *)

\* list.sort(key=Integral): stable, ascending
RECURSIVE InsertSorted(_, _)
InsertSorted(sorted, x) ==
    IF sorted = <<>> THEN <<x>>
    ELSE IF Integral(Head(sorted).h) <= Integral(x.h)
    THEN <<Head(sorted)>> \o InsertSorted(Tail(sorted), x)
    ELSE <<x>> \o sorted

\* a sort that leaves the list as it is
KeepOrder(s) == s

RECURSIVE SortByIntegral(_)
SortByIntegral(s) ==
    IF s = <<>> THEN <<>>
    ELSE InsertSorted(SortByIntegral(SubSeq(s, 1, Len(s) - 1)), s[Len(s)])

\* the (proc, h) pairs appended for the templates of a list that have a
\* merged histogram, in the order of the list
PairsOf(merged_hists, ups) ==
    LET sel == SelectSeq(ups, LAMBDA proc : proc.name \in DOMAIN merged_hists)
    IN  [i \in DOMAIN sel |-> [proc |-> sel[i], h |-> Clone(merged_hists[sel[i].name])]]

\* a separation that stacks the line overlays as well
SeparateLinesStacked(merged_hists, ups) ==
    [stacked_hists   |-> SortByIntegral(PairsOf(merged_hists, SelectSeq(ups, LAMBDA proc : proc.style # POINTS))),
     unstacked_hists |-> SortByIntegral(PairsOf(merged_hists, SelectSeq(ups, LAMBDA proc : proc.style = POINTS)))]

\* Plotter._separate_hists
_separate_hists(merged_hists, ups) ==
    [stacked_hists   |-> SortByIntegral(PairsOf(merged_hists, SelectSeq(ups, LAMBDA proc : proc.style = STACKED))),
     unstacked_hists |-> SortByIntegral(PairsOf(merged_hists, SelectSeq(ups, LAMBDA proc : proc.style # STACKED)))]

\* a total that is the first histogram of the stack alone
StackSeedOnly(stacked_hists, total_hist) == total_hist

\* the loop of _draw_stack that accumulates total_hist
RECURSIVE StackTotal(_, _)
StackTotal(stacked_hists, total_hist) ==
    IF stacked_hists = <<>> THEN total_hist
    ELSE StackTotal(Tail(stacked_hists), Add(total_hist, Head(stacked_hists).h))

\* Plotter._draw_stack: the total histogram it returns
_draw_stack(stacked_hists) ==
    IF stacked_hists = <<>> THEN None
    ELSE StackTotal(Tail(stacked_hists), Clone(Head(stacked_hists).h))

\* exact quotients, in lowest terms and with a positive denominator
RECURSIVE GCD(_, _)
GCD(a, b) == IF b = 0 THEN a ELSE GCD(b, a % b)
Abs(n) == IF n < 0 THEN -n ELSE n
Frac(n, d) ==
    LET g == GCD(Abs(n), Abs(d))
    IN  [num |-> (IF d < 0 THEN -n ELSE n) \div g, den |-> Abs(d) \div g]

\* a quotient that keeps the numerator's bin where the denominator is 0
DivideKeepsNumerator(a, b) ==
    [a EXCEPT !.content = [s \in Slots(a.nbins) |->
                              IF b.content[s] = 0 THEN Frac(a.content[s], 1)
                              ELSE Frac(a.content[s], b.content[s])],
              !.sumw2   = [s \in Slots(a.nbins) |-> Frac(a.sumw2[s], 1)]]

\* TH1.Divide(b): content a/b and the propagated variance, 0 where b is 0
Divide(a, b) ==
    [nbins   |-> a.nbins,
     content |-> [s \in Slots(a.nbins) |->
                    IF b.content[s] = 0 THEN Frac(0, 1)
                    ELSE Frac(a.content[s], b.content[s])],
     sumw2   |-> [s \in Slots(a.nbins) |->
                    IF b.content[s] = 0 THEN Frac(0, 1)
                    ELSE Frac(a.sumw2[s] * b.content[s] * b.content[s]
                                + b.sumw2[s] * a.content[s] * a.content[s],
                              b.content[s] * b.content[s] * b.content[s] * b.content[s])]]

\* PanelElement._divide, for two histograms
_divide(hists) == Divide(Clone(hists[1]), hists[2])

\* a band that keeps the bin error of its argument
ErrorBandKeepsError(hists) ==
    LET a == hists[1]
    IN  [nbins   |-> a.nbins,
         content |-> [s \in Slots(a.nbins) |->
                        IF s \in 1..a.nbins /\ a.content[s] > 0 THEN Frac(1, 1)
                        ELSE Frac(a.content[s], 1)],
         sumw2   |-> [s \in Slots(a.nbins) |-> Frac(a.sumw2[s], 1)]]

\* PanelElement._error_band, for one histogram
_error_band(hists) ==
    LET a == hists[1]
    IN  [nbins   |-> a.nbins,
         content |-> [s \in Slots(a.nbins) |->
                        IF s \in 1..a.nbins /\ a.content[s] > 0 THEN Frac(1, 1)
                        ELSE Frac(a.content[s], 1)],
         sumw2   |-> [s \in Slots(a.nbins) |->
                        IF s \in 1..a.nbins /\ a.content[s] > 0
                        THEN Frac(a.sumw2[s], a.content[s] * a.content[s])
                        ELSE Frac(a.sumw2[s], 1)]]

\* PanelElement._error_band called on (a,): what it returns, and its
\* arguments after the call (every setter acts on the clone h_ratio)
ErrorBandCall(hists) ==
    [func |-> "_error_band", hists |-> hists, returned |-> _error_band(hists), after |-> hists]

\* a divide that works on its first argument and not on a clone of it, and
\* leaves it reset
DivideInPlaceCall(hists) ==
    [func |-> "_divide", hists |-> hists, returned |-> _divide(hists),
     after |-> <<Reset(hists[1]), hists[2]>>]

\* PanelElement._divide called on (a, b): what it returns, and its arguments
\* after the call (Divide acts on the clone h_ratio)
DivideCall(hists) ==
    [func |-> "_divide", hists |-> hists, returned |-> _divide(hists), after |-> hists]

Raise(exc, line) == [exc |-> exc, line |-> line]
NoRaise          == [exc |-> "", line |-> 0]

\* element.func(tuple(value_hists)): the built-in functions check their arity
ApplyFunc(func, value_hists) ==
    IF func = "_error_band"
    THEN IF Len(value_hists) # 1
         THEN [raise |-> Raise("ValueError", 413), histogram |-> None]
         ELSE [raise |-> NoRaise, histogram |-> _error_band(value_hists)]
    ELSE IF Len(value_hists) # 2
         THEN [raise |-> Raise("ValueError", 413), histogram |-> None]
         ELSE [raise |-> NoRaise, histogram |-> _divide(value_hists)]

\* the loop over element.values of _make_plots (lines 399-407)
RECURSIVE ResolveValues(_, _, _, _, _)
ResolveValues(values, merged_hists, cached_stack_total, ups, acc) ==
    IF values = <<>> \/ acc.raise # NoRaise THEN acc
    ELSE
    LET value == Head(values)
        rest  == Tail(values)
    IN  IF value = "stack"
        THEN IF cached_stack_total = None
             THEN [acc EXCEPT !.raise = Raise("AttributeError", 402)]
             ELSE ResolveValues(rest, merged_hists, cached_stack_total, ups,
                      [acc EXCEPT !.value_hists = Append(@, Clone(cached_stack_total))])
        ELSE IF value \in Names(ups)
        THEN IF value \notin DOMAIN merged_hists
             THEN [acc EXCEPT !.raise = Raise("KeyError", 404)]
             ELSE ResolveValues(rest, merged_hists, cached_stack_total, ups,
                      [acc EXCEPT !.value_hists = Append(@, merged_hists[value])])
        ELSE ResolveValues(rest, merged_hists, cached_stack_total, ups,
                 [acc EXCEPT !.value_hists = Append(@, None),
                             !.log = @ \o Error("process not found in merged histograms")])

\* the loop over hist.panel.elements of _make_plots (lines 396-413)
RECURSIVE EvaluateElements(_, _, _, _, _, _)
EvaluateElements(k, elements, merged_hists, cached_stack_total, ups, lg) ==
    IF k > Len(elements) THEN [elements |-> elements, log |-> lg, raise |-> NoRaise]
    ELSE
    LET res == ResolveValues(elements[k].values, merged_hists, cached_stack_total, ups,
                             [value_hists |-> <<>>, log |-> lg, raise |-> NoRaise])
        out == ApplyFunc(elements[k].func, res.value_hists)
    IN  IF res.raise # NoRaise
        THEN [elements |-> elements, log |-> res.log, raise |-> res.raise]
        ELSE IF \E i \in DOMAIN res.value_hists : res.value_hists[i] = None
        THEN EvaluateElements(k + 1, elements, merged_hists, cached_stack_total, ups,
                 res.log \o Error("skipping panel element"))
        ELSE IF out.raise # NoRaise
        THEN [elements |-> elements, log |-> res.log, raise |-> out.raise]
        ELSE EvaluateElements(k + 1, [elements EXCEPT ![k].histogram = out.histogram],
                 merged_hists, cached_stack_total, ups, res.log)

\* element.func(tuple(value_hists)) as a call, with the arguments it leaves
FuncCall(func, hists) ==
    IF func = "_error_band" THEN ErrorBandCall(hists) ELSE DivideCall(hists)

\* the merged histograms after a call: the values that are not the sentinel
\* are the merged histograms themselves (line 404), not clones of them
RECURSIVE WriteBack(_, _, _, _)
WriteBack(values, after, merged_hists, v) ==
    IF v > Len(values) THEN merged_hists
    ELSE IF values[v] = "stack" THEN WriteBack(values, after, merged_hists, v + 1)
    ELSE WriteBack(values, after, Put(merged_hists, values[v], after[v]), v + 1)

\* the merged histograms of the plot after the loop over the panel elements
RECURSIVE MergedAfterElements(_, _, _, _, _)
MergedAfterElements(k, elements, merged_hists, cached_stack_total, ups) ==
    IF k > Len(elements) THEN merged_hists
    ELSE
    LET res == ResolveValues(elements[k].values, merged_hists, cached_stack_total, ups,
                             [value_hists |-> <<>>, log |-> <<>>, raise |-> NoRaise])
    IN  IF res.raise # NoRaise THEN merged_hists
        ELSE IF \E i \in DOMAIN res.value_hists : res.value_hists[i] = None
        THEN MergedAfterElements(k + 1, elements, merged_hists, cached_stack_total, ups)
        ELSE IF ApplyFunc(elements[k].func, res.value_hists).raise # NoRaise THEN merged_hists
        ELSE MergedAfterElements(k + 1, elements,
                 WriteBack(elements[k].values, FuncCall(elements[k].func, res.value_hists).after,
                           merged_hists, 1),
                 cached_stack_total, ups)

\* drawing the panel (lines 415-424): the blueprint is cloned from the first
\* element's histogram, then _draw_panel_element draws every element's
DrawPanel(elements) ==
    IF elements = <<>> THEN Raise("IndexError", 416)
    ELSE IF elements[1].histogram = None THEN Raise("AttributeError", 416)
    ELSE IF \E i \in DOMAIN elements : elements[i].histogram = None
    THEN Raise("AttributeError", 709)
    ELSE NoRaise

\* the body of the loops of _make_plots, for one histogram spec and region
ComposePlot(hist, region, ups, pnls, lg) ==
    LET merged_hists == hist.merged_histograms[region]
        groups       == _separate_hists(merged_hists, ups)
        total        == _draw_stack(groups.stacked_hists)
        ev           == IF hist.panel = 0
                        THEN [elements |-> <<>>, log |-> lg, raise |-> NoRaise]
                        ELSE EvaluateElements(1, pnls[hist.panel].elements, merged_hists,
                                              total, ups, lg)
        drawn        == IF hist.panel = 0 \/ ev.raise # NoRaise THEN ev.raise
                        ELSE DrawPanel(ev.elements)
    IN  [panels |-> IF hist.panel = 0 THEN pnls
                    ELSE [pnls EXCEPT ![hist.panel].elements = ev.elements],
         merged_hists |-> IF hist.panel = 0 THEN merged_hists
                          ELSE MergedAfterElements(1, pnls[hist.panel].elements, merged_hists, total, ups),
         log    |-> ev.log,
         raise  |-> drawn,
         plot   |-> [hist |-> hist.name, region |-> region,
                     stacked_hists |-> groups.stacked_hists,
                     unstacked_hists |-> groups.unstacked_hists,
                     stack_total |-> total,
                     panel |-> [i \in DOMAIN ev.elements |-> ev.elements[i].histogram]]]

----------------------------------------------------------------------------
(* Plotter.run(), step by step *)

Event(step, hist, region, proc) ==
    [step |-> step, hist |-> hist, region |-> region, proc |-> proc]

\* stages in which the fold comes before the merge
PhaseFoldFirst(phase) ==
    CASE phase = "make_hists" -> "fold"
      [] phase = "fold"       -> "merge"
      [] phase = "merge"      -> "write"
      [] phase = "write"      -> "make_plots"
      [] OTHER                -> "done"

\* the order of the stages of run()
PhaseAfter(phase) ==
    CASE phase = "make_hists" -> "merge"
      [] phase = "merge"      -> "fold"
      [] phase = "fold"       -> "write"
      [] phase = "write"      -> "make_plots"
      [] OTHER                -> "done"

\* the keys of a merged map, in the order a dict keeps them: that of the
\* first fragment of each region
RECURSIVE RegionOrder(_, _)
RegionOrder(frags, seen) ==
    IF frags = <<>> THEN <<>>
    ELSE IF Head(frags).region \in seen THEN RegionOrder(Tail(frags), seen)
    ELSE <<Head(frags).region>> \o RegionOrder(Tail(frags), seen \cup {Head(frags).region})

MergedRegions(hist) ==
    SelectSeq(RegionOrder(hist.histograms, {}), LAMBDA r : r \in DOMAIN hist.merged_histograms)

\* the (histogram spec, region) pairs _make_plots visits, in order
RECURSIVE PlotList(_, _)
PlotList(hs, i) ==
    IF i > Len(hs) THEN <<>>
    ELSE LET rs == MergedRegions(hs[i])
         IN  [k \in DOMAIN rs |-> [hist |-> i, region |-> rs[k]]] \o PlotList(hs, i + 1)

\* a write loop that stops after the first process of a spec and region
WriteFirstKey(hist, region, ups) ==
    LET sel == SelectSeq(ups, LAMBDA proc : proc.name \in DOMAIN hist.merged_histograms[region])
    IN  [k \in DOMAIN sel \cap {1} |->
            [key  |-> hist.name \o "_" \o region \o "_" \o sel[k].name,
             hist |-> hist.name, region |-> region, proc |-> sel[k].name]]

\* the keys run() writes for one histogram spec and region
WriteKeys(hist, region, ups) ==
    LET sel == SelectSeq(ups, LAMBDA proc : proc.name \in DOMAIN hist.merged_histograms[region])
    IN  [k \in DOMAIN sel |->
            [key  |-> hist.name \o "_" \o region \o "_" \o sel[k].name,
             hist |-> hist.name, region |-> region, proc |-> sel[k].name]]

RECURSIVE WriteAll(_, _, _)
WriteAll(pl, hs, ups) ==
    IF pl = <<>> THEN <<>>
    ELSE WriteKeys(hs[Head(pl).hist], Head(pl).region, ups) \o WriteAll(Tail(pl), hs, ups)

MergedOf(hs) == [i \in DOMAIN hs |-> hs[i].merged_histograms]

\* run(), lines 110-118: the default region
StartRun ==
    /\ runs < MaxRuns
    /\ regions' = IF regions = <<>>
                  THEN <<Region("nominal", "", NoneList, NoneList, NoneList, NoneList)>>
                  ELSE regions
    /\ pc' = "make_hists"
    /\ runs' = runs + 1
    /\ raised' = NoException
    /\ trace' = <<>>
    /\ plots' = <<>>
    /\ cursor' = 0
    /\ UNCHANGED <<call, heap, plotters, histograms2D, histograms, processes, unique_processes, panels, log, output_file, first_run>>

\* run(), line 121
MakeHists ==
    /\ pc = "make_hists"
    /\ LET out == _make_hists(regions, histograms, processes, log)
       IN  /\ histograms' = out.histograms
           /\ log' = out.log
    /\ trace' = Append(trace, Event("fill", "", "", ""))
    /\ pc' = PhaseAfter("make_hists")
    /\ UNCHANGED <<call, heap, plotters, histograms2D, regions, processes, unique_processes, panels, cursor, raised,
                   output_file, plots, runs, first_run>>

\* run(), lines 124-126
MergeHists ==
    /\ pc = "merge"
    /\ histograms' = [i \in DOMAIN histograms |->
            [histograms[i] EXCEPT !.merged_histograms = _merge_hists(histograms[i])]]
    /\ trace' = trace \o [i \in DOMAIN histograms |-> Event("merge", histograms[i].name, "", "")]
    /\ pc' = PhaseAfter("merge")
    /\ UNCHANGED <<call, heap, plotters, histograms2D, regions, processes, unique_processes, panels, log, cursor, raised,
                   output_file, plots, runs, first_run>>

\* run(), lines 129-130
AddUnderflowOverflow ==
    /\ pc = "fold"
    /\ histograms' = [i \in DOMAIN histograms |-> _add_underflow_overflow(histograms[i])]
    /\ trace' = trace \o [i \in DOMAIN histograms |-> Event("fold", histograms[i].name, "", "")]
    /\ pc' = PhaseAfter("fold")
    /\ UNCHANGED <<call, heap, plotters, histograms2D, regions, processes, unique_processes, panels, log, cursor, raised,
                   output_file, plots, runs, first_run>>

\* run(), lines 132-139: the file is created anew
WriteOutput ==
    /\ pc = "write"
    /\ LET written == WriteAll(PlotList(histograms, 1), histograms, unique_processes)
       IN  /\ output_file' = written
           /\ trace' = trace \o [k \in DOMAIN written |->
                  Event("write", written[k].hist, written[k].region, written[k].proc)]
    /\ pc' = PhaseAfter("write")
    /\ cursor' = 1
    /\ UNCHANGED <<call, heap, plotters, histograms2D, regions, histograms, processes, unique_processes, panels, log, raised,
                   plots, runs, first_run>>

\* _make_plots: one pass of its loops, which saves the plot or raises
MakePlot ==
    /\ pc = "make_plots"
    /\ cursor <= Len(PlotList(histograms, 1))
    /\ LET at  == PlotList(histograms, 1)[cursor]
           out == ComposePlot(histograms[at.hist], at.region, unique_processes, panels, log)
       IN  /\ panels' = out.panels
           /\ histograms' = [histograms EXCEPT ![at.hist].merged_histograms[at.region] = out.merged_hists]
           /\ log' = out.log
           /\ trace' = Append(trace, Event("plot", histograms[at.hist].name, at.region, ""))
           /\ IF out.raise # NoRaise
              THEN /\ raised' = [exc |-> out.raise.exc, line |-> out.raise.line,
                                 hist |-> histograms[at.hist].name, region |-> at.region]
                   /\ pc' = "raised"
                   /\ plots' = plots
                   /\ first_run' = IF runs = 1 THEN MergedOf(histograms) ELSE first_run
              ELSE /\ raised' = raised
                   /\ pc' = pc
                   /\ plots' = Append(plots, out.plot)
                   /\ first_run' = first_run
    /\ cursor' = cursor + 1
    /\ UNCHANGED <<call, heap, plotters, histograms2D, regions, processes, unique_processes, output_file, runs>>

\* run(), lines 142-146: every plot is made, run() returns
Finish ==
    /\ pc = "make_plots"
    /\ cursor > Len(PlotList(histograms, 1))
    /\ pc' = PhaseAfter("make_plots")
    /\ first_run' = IF runs = 1 THEN MergedOf(histograms) ELSE first_run
    /\ UNCHANGED <<call, heap, plotters, confVars, log, cursor, raised, output_file, plots, trace, runs>>

\* _add_underflow_overflow called once more, on a spec that run() has folded
FoldAgain(i) ==
    /\ pc = "done"
    /\ \A k \in DOMAIN trace : trace[k] # Event("refold", histograms[i].name, "", "")
    /\ histograms' = [histograms EXCEPT ![i] = _add_underflow_overflow(histograms[i])]
    /\ trace' = Append(trace, Event("refold", histograms[i].name, "", ""))
    /\ UNCHANGED <<call, heap, plotters, histograms2D, regions, processes, unique_processes, panels, log, pc, cursor, raised,
                   output_file, plots, runs, first_run>>

\* the first call of run(), and a later call on the same plotter
RunStart == pc = "idle" /\ StartRun
RunAgain == pc \in {"done", "raised"} /\ StartRun

\* Plotter(): a new plotter, after the run of the one before.  The Panel
\* objects are the user's, and stay as the composition of the plots left them.
NewPlotter ==
    /\ pc = "done"
    /\ plotters < MaxPlotters
    /\ plotters' = plotters + 1
    /\ regions' = <<>>
    /\ histograms' = <<>>
    /\ histograms2D' = <<>>
    /\ processes' = <<>>
    /\ unique_processes' = <<>>
    /\ log' = <<>>
    /\ pc' = "idle"
    /\ cursor' = 0
    /\ raised' = NoException
    /\ output_file' = <<>>
    /\ plots' = <<>>
    /\ trace' = <<>>
    /\ runs' = 0
    /\ first_run' = <<>>
    /\ UNCHANGED <<call, heap, panels>>

----------------------------------------------------------------------------
(* The inputs of the model *)

\* events below the range, in the first bins and at the top of the values,
\* of the smallest and of the largest weight
Events == [x : {0, 1, 2, MaxX}, w : {1, MaxW}]

\* uniform binnings over [1, 1 + n): x = 0 is below the range
BinningOf(n) == Binning(n, 1, n + 1)

DataA == {[x |-> 0, w |-> 1], [x |-> 1, w |-> 2]}
DataB == {[x |-> 2, w |-> 1], [x |-> MaxX, w |-> 2]}

StyleOf(name) == IF name = "mc" THEN STACKED ELSE POINTS

NoFilter      == <<NoneList, NoneList>>
Include(S)    == <<ListOf(S), NoneList>>
Exclude(S)    == <<NoneList, ListOf(S)>>

\* Spec: processes that share names, process filters on specs and regions
ProcessPool ==
    {Process("mc", d, kBlack, StyleOf("mc"), TRUE, "mc") : d \in {DataA, DataB}}
    \cup {Process("data", DataA, kBlack, StyleOf("data"), TRUE, "data")}
HistogramPool ==
    {Histogram(n, BinningOf(MaxBins), 0, FALSE, FALSE, f[1], f[2]) :
        n \in {"pt", "mass"}, f \in {NoFilter, Include({"mc"})}}
RegionPool ==
    {Region("sr", "x>=2", NoneList, ListOf({"data"}), NoneList, NoneList),
     Region("cr", "", NoneList, NoneList, ListOf({"pt"}), NoneList)}

Next ==
    \/ \E process \in ProcessPool : add_process(process)
    \/ \E histogram \in HistogramPool : HistogramCalls < MaxHistograms /\ add_histogram(histogram)
    \/ \E region \in RegionPool : RegionCalls < MaxRegions /\ add_region(region)
    \/ RunStart
    \/ RunAgain
    \/ MakeHists
    \/ MergeHists
    \/ AddUnderflowOverflow
    \/ WriteOutput
    \/ MakePlot
    \/ Finish

Spec == Init /\ [][Next]_vars

\* SpecFold: one process over every small dataset, specs over the binnings
\* and the underflow / overflow flags, one run
Datasets == {E \in SUBSET Events : Cardinality(E) <= MaxEvents}
FoldProcessPool == {Process("mc", d, kBlack, STACKED, TRUE, "mc") : d \in Datasets}
FoldHistogramPool ==
    {Histogram("pt", BinningOf(n), 0, u, o, NoneList, NoneList) :
        n \in 1..MaxBins, u \in BOOLEAN, o \in BOOLEAN}
    \cup {Histogram("mass", BinningOf(MaxBins), 0, TRUE, TRUE, NoneList, NoneList)}
FoldRegionPool == {Region("sr", "x>=2", NoneList, NoneList, NoneList, NoneList)}

NextFold ==
    \/ \E process \in FoldProcessPool : processes = <<>> /\ add_process(process)
    \/ \E histogram \in FoldHistogramPool :
          histogram.name \notin Names(histograms) /\ add_histogram(histogram)
    \/ \E region \in FoldRegionPool : RegionCalls < MaxRegions /\ add_region(region)
    \/ RunStart
    \/ MakeHists
    \/ MergeHists
    \/ AddUnderflowOverflow
    \/ WriteOutput
    \/ MakePlot
    \/ Finish
    \/ \E i \in DOMAIN histograms : FoldAgain(i)

SpecFold == Init /\ [][NextFold]_vars

\* SpecPanel: processes over the styles, specs with and without a panel and
\* a process filter, one Panel object over several element lists, one run
Ratio(a, b)  == PanelElement(<<a, b>>, "_divide", kBlack, POINTS, TRUE)
Band(a)      == PanelElement(<<a>>, "_error_band", kBlack, STACKED, TRUE)
PanelPool ==
    {<<Panel(els)>> : els \in {<<Ratio("data", "stack")>>,
                               <<Band("stack")>>,
                               <<Ratio("data", "stack"), Ratio("ghost", "stack")>>,
                               <<Ratio("ghost", "stack"), Band("stack")>>}}
PanelProcessPool ==
    {Process("data", DataA, kBlack, st, TRUE, "data") : st \in {POINTS, STACKED}}
    \cup {Process("mc", DataB, kBlack, st, TRUE, "mc") : st \in {STACKED, LINE}}
PanelHistogramPool ==
    {Histogram(n, BinningOf(MaxBins), pn, FALSE, FALSE, f[1], f[2]) :
        n \in {"pt", "mass"}, pn \in {0, 1}, f \in {NoFilter, Exclude({"data"})}}
InitPanel == \E pnls \in PanelPool : InitPlotter(pnls)

NextPanel ==
    \/ \E process \in PanelProcessPool : add_process(process)
    \/ \E histogram \in PanelHistogramPool : HistogramCalls < MaxHistograms /\ add_histogram(histogram)
    \/ RunStart
    \/ MakeHists
    \/ MergeHists
    \/ AddUnderflowOverflow
    \/ WriteOutput
    \/ MakePlot
    \/ Finish

SpecPanel == InitPanel /\ [][NextPanel]_vars

----------------------------------------------------------------------------
(* Properties *)

\* the merged histograms are those _merge_hists returned: merged, not yet folded
JustMerged == pc = "fold"
\* the merge of the current run is done
Merged     == pc \in {"fold", "write", "make_plots", "done", "raised"}

\* the fragments of a histogram spec recorded for a region and a process name
FragmentsOf(hist, r, p) ==
    {k \in DOMAIN hist.histograms : hist.histograms[k].region = r /\ hist.histograms[k].proc = p}

\* the sum over a set of fragments of one slot of their contents or variances
RECURSIVE SumFragments(_, _, _, _)
SumFragments(hist, K, field, s) ==
    IF K = {} THEN 0
    ELSE LET k == CHOOSE k \in K : TRUE
         IN  hist.histograms[k].h[field][s] + SumFragments(hist, K \ {k}, field, s)

Swap(seq, i, j) ==
    [k \in DOMAIN seq |-> IF k = i THEN seq[j] ELSE IF k = j THEN seq[i] ELSE seq[k]]

\* C1: the histogram _merge_hists produces for a region and a process name
\* holds, in every slot (underflow and overflow included), the sum of the
\* contents and the sum of the variances of the fragments recorded for that
\* region and name, it does so for exactly the (region, name) pairs that have
\* a fragment, and exchanging any two fragments of the list gives the same
\* merged histograms.
C1_MergeSumsFragments ==
    JustMerged =>
        \A i \in DOMAIN histograms :
            LET hist   == histograms[i]
                merged == hist.merged_histograms
                frags  == hist.histograms
            IN  /\ merged = _merge_hists(hist)
                /\ DOMAIN merged = {frags[k].region : k \in DOMAIN frags}
                /\ \A r \in DOMAIN merged :
                      /\ DOMAIN merged[r] = {frags[k].proc : k \in {k \in DOMAIN frags : frags[k].region = r}}
                      /\ \A p \in DOMAIN merged[r] : \A s \in Slots(hist.binning.nbins) :
                            /\ merged[r][p].content[s] = SumFragments(hist, FragmentsOf(hist, r, p), "content", s)
                            /\ merged[r][p].sumw2[s] = SumFragments(hist, FragmentsOf(hist, r, p), "sumw2", s)
                /\ \A k1, k2 \in DOMAIN frags :
                      _merge_hists([hist EXCEPT !.histograms = Swap(frags, k1, k2)]) = merged

\* C1, witness: a merged histogram that sums two fragments with different,
\* non-empty contents
C1_Witness ==
    /\ JustMerged
    /\ \E i \in DOMAIN histograms : \E r \in DOMAIN histograms[i].merged_histograms :
         \E p \in DOMAIN histograms[i].merged_histograms[r] :
            LET hist == histograms[i] IN
            \E k1, k2 \in FragmentsOf(hist, r, p) :
                /\ k1 # k2
                /\ hist.histograms[k1].h # hist.histograms[k2].h
                /\ Integral(hist.histograms[k1].h) > 0
                /\ Integral(hist.histograms[k2].h) > 0

\* the process names filled and merged for a histogram spec in a region
MergedNames(hist, r) ==
    IF r \in DOMAIN hist.merged_histograms THEN DOMAIN hist.merged_histograms[r] ELSE {}

\* the registered process names that pass a region's filter and a spec's own
ExpectedNames(hist, region) ==
    Names(_filter_processes(
              _filter_processes(processes, region.include_processes, region.exclude_processes),
              hist.include_processes, hist.exclude_processes))

\* C2: for every region and every histogram spec selected for it, the names
\* filled and merged are the registered names that pass the region's filter
\* and that spec's own filter, whatever the other specs' filters are.
C2_MergedSetIsExpected ==
    Merged =>
        \A ri \in DOMAIN regions :
            LET region   == regions[ri]
                selected == _filter_histograms(histograms, region.include_histograms, region.exclude_histograms)
            IN  \A k \in DOMAIN selected :
                    MergedNames(selected[k], region.name) = ExpectedNames(selected[k], region)

\* C3: a second run() on the same plotter leaves every merged histogram as
\* the first run left it.
C3_RerunLeavesMergedUnchanged ==
    (runs >= 2 /\ pc = "done") => MergedOf(histograms) = first_run

\* the passes of the loops of _make_plots made so far in this run, as
\* positions of the plot list
Attempted ==
    IF pc \in {"make_plots", "done", "raised"}
    THEN {k \in DOMAIN PlotList(histograms, 1) : k < cursor}
    ELSE {}

\* the pass at position k ended with an exception
RaisedAt(k) == pc = "raised" /\ k = cursor - 1

PlotHist(k)     == histograms[PlotList(histograms, 1)[k].hist]
PlotMerged(k)   == PlotHist(k).merged_histograms[PlotList(histograms, 1)[k].region]
PlotElements(k) == IF PlotHist(k).panel = 0 THEN <<>> ELSE panels[PlotHist(k).panel].elements

\* the inputs the elements of the plot's panel name
PanelValues(k) ==
    UNION {{PlotElements(k)[e].values[v] : v \in DOMAIN PlotElements(k)[e].values} :
              e \in DOMAIN PlotElements(k)}

\* C4: a plot whose panel names the stack sentinel while the region's stack
\* group is empty does not raise on resolving the sentinel: the element is
\* skipped with an error logged and the run goes on.
C4_EmptyStackSkipsSubplot ==
    \A k \in Attempted :
        (/\ "stack" \in PanelValues(k)
         /\ _separate_hists(PlotMerged(k), unique_processes).stacked_hists = <<>>)
        => ~(RaisedAt(k) /\ raised.exc = "AttributeError" /\ raised.line = 402)

\* C5: a plot whose panel has an element naming an identifier that is neither
\* the stack sentinel nor a registered process does not raise when the panel
\* is drawn: only that element is skipped.
C5_UnresolvedElementFailsAlone ==
    \A k \in Attempted :
        PanelValues(k) \ ({"stack"} \cup Names(unique_processes)) # {}
        => ~(RaisedAt(k) /\ raised.exc = "AttributeError" /\ raised.line \in {416, 709})

\* C6: a plot whose panel names a registered process that has no merged
\* histogram in the plot's spec and region does not raise on looking it up:
\* the element is skipped and the run goes on.
C6_FilteredProcessSkipsElement ==
    \A k \in Attempted :
        (PanelValues(k) \cap Names(unique_processes)) \ DOMAIN PlotMerged(k) # {}
        => ~(RaisedAt(k) /\ raised.exc = "KeyError")

\* the fold of the current run is done
Folded == pc \in {"write", "make_plots", "done", "raised"}

\* what folding is to leave in slot s of a histogram with the slots pre
FoldedSlot(pre, n, s) ==
    IF s = 0 \/ s = n + 1 THEN 0
    ELSE pre[s] + (IF s = 1 THEN pre[0] ELSE 0) + (IF s = n THEN pre[n + 1] ELSE 0)

\* C7: after _add_underflow_overflow on a spec with folding enabled, bin 1
\* holds its pre-fold content plus the underflow, bin n its pre-fold content
\* plus the overflow (the one bin both of them when n = 1), variances
\* likewise, and the underflow and overflow slots are zero.
C7_FoldMovesUnderflowOverflow ==
    Folded =>
        \A i \in DOMAIN histograms :
            LET hist == histograms[i]
                n    == hist.binning.nbins
                pre  == _merge_hists(hist)
                post == hist.merged_histograms
            IN  (hist.underflow /\ hist.overflow) =>
                \A r \in DOMAIN post : \A p \in DOMAIN post[r] : \A s \in Slots(n) :
                    /\ post[r][p].content[s] = FoldedSlot(pre[r][p].content, n, s)
                    /\ post[r][p].sumw2[s] = FoldedSlot(pre[r][p].sumw2, n, s)

\* the specs on which _add_underflow_overflow was called once more
Refolded == {i \in DOMAIN histograms :
                \E k \in DOMAIN trace : trace[k] = Event("refold", histograms[i].name, "", "")}

\* C8: _add_underflow_overflow applied a second time, to a spec whose merged
\* histograms are folded, changes no content and no variance.
C8_SecondFoldChangesNothing ==
    \A i \in Refolded : histograms[i].merged_histograms = first_run[i]

\* C8, witness: the second application was made on a spec that folds both
\* ways and whose fragments had underflow and overflow to fold
C8_Witness ==
    \E i \in Refolded :
        /\ histograms[i].underflow /\ histograms[i].overflow
        /\ \E k \in DOMAIN histograms[i].histograms :
              LET h == histograms[i].histograms[k].h
              IN  h.content[0] > 0 /\ h.content[h.nbins + 1] > 0

\* the positions of the trace that hold a step of a histogram spec
StepsOf(step, name) == {k \in DOMAIN trace : trace[k].step = step /\ trace[k].hist = name}
Steps(step)         == {k \in DOMAIN trace : trace[k].step = step}

\* C9: in a run, every spec is folded at most once, and once when the fold
\* stage is over; a fold comes after the merge of every spec and before every
\* plot; and when the fold stage ends each merged histogram is the fold of
\* what the merge produced.
C9_FoldOnceAfterMergeBeforePlots ==
    /\ \A i \in DOMAIN histograms :
          /\ Cardinality(StepsOf("fold", histograms[i].name)) <= 1
          /\ Folded => Cardinality(StepsOf("fold", histograms[i].name)) = 1
          /\ \A k \in Steps("fold") : \E m \in StepsOf("merge", histograms[i].name) : m < k
          /\ \A q \in Steps("plot") : \E k \in StepsOf("fold", histograms[i].name) : k < q
    /\ pc = "write" =>
          \A i \in DOMAIN histograms :
              LET hist == histograms[i]
                  pre  == _merge_hists(hist)
              IN  hist.merged_histograms =
                      [r \in DOMAIN pre |-> [p \in DOMAIN pre[r] |->
                          IF hist.underflow \/ hist.overflow
                          THEN FoldHistogram(pre[r][p], hist.underflow, hist.overflow)
                          ELSE pre[r][p]]]

\* C9, witness: two specs, one of which folds, are merged and folded, and a
\* plot has been made
C9_Witness ==
    /\ Len(histograms) = 2
    /\ \E i \in DOMAIN histograms :
          /\ histograms[i].underflow
          /\ \E r \in DOMAIN histograms[i].merged_histograms :
                \E p \in DOMAIN histograms[i].merged_histograms[r] :
                    _merge_hists(histograms[i])[r][p] # histograms[i].merged_histograms[r][p]
    /\ Steps("plot") # {}

\* the template registered for a process name
TemplateOf(name) == CHOOSE t \in SeqToSet(unique_processes) : t.name = name
GroupNames(group) == {group[k].proc.name : k \in DOMAIN group}

\* the merged map a saved plot was composed from
MergedOfPlot(plot) ==
    LET hist == CHOOSE h \in SeqToSet(histograms) : h.name = plot.hist
    IN  hist.merged_histograms[plot.region]

\* C10: in every plot, the stack group holds exactly the merged processes
\* whose template has the stacked role, the overlay group exactly the other
\* merged processes that have a template, each process once, with its own
\* merged histogram.
C10_GroupsPartitionByRole ==
    \A k \in DOMAIN plots :
        LET merged == MergedOfPlot(plots[k])
            known  == DOMAIN merged \cap Names(unique_processes)
            st     == plots[k].stacked_hists
            un     == plots[k].unstacked_hists
        IN  /\ GroupNames(st) = {p \in known : TemplateOf(p).style = STACKED}
            /\ GroupNames(un) = {p \in known : TemplateOf(p).style # STACKED}
            /\ Len(st) = Cardinality(GroupNames(st))
            /\ Len(un) = Cardinality(GroupNames(un))
            /\ \A j \in DOMAIN st : st[j].proc = TemplateOf(st[j].proc.name)
                                      /\ st[j].h = merged[st[j].proc.name]
            /\ \A j \in DOMAIN un : un[j].proc = TemplateOf(un[j].proc.name)
                                      /\ un[j].h = merged[un[j].proc.name]

\* C10, witness: a plot with a stacked process and a line overlay
C10_Witness ==
    \E k \in DOMAIN plots :
        /\ plots[k].stacked_hists # <<>>
        /\ \E j \in DOMAIN plots[k].unstacked_hists : plots[k].unstacked_hists[j].proc.style = LINE

\* the two groups of a saved plot
GroupsOf(plot) == {plot.stacked_hists, plot.unstacked_hists}

\* C11: in both groups of every plot the histograms are in ascending order of
\* integral: each entry's integral is at most that of the entry after it.
C11_GroupsAscendByIntegral ==
    \A k \in DOMAIN plots : \A g \in GroupsOf(plots[k]) :
        \A j \in 1..(Len(g) - 1) : Integral(g[j].h) <= Integral(g[j + 1].h)

\* C11, witness: a group holds two histograms of different integrals whose
\* processes were registered in the opposite order
C11_Witness ==
    \E k \in DOMAIN plots : \E g \in GroupsOf(plots[k]) : \E j \in 1..(Len(g) - 1) :
        /\ Integral(g[j].h) < Integral(g[j + 1].h)
        /\ \E a, b \in DOMAIN unique_processes :
              /\ b < a
              /\ unique_processes[a].name = g[j].proc.name
              /\ unique_processes[b].name = g[j + 1].proc.name

\* the sum over the entries of a group of one slot of their contents or variances
RECURSIVE SumGroup(_, _, _)
SumGroup(g, field, s) ==
    IF g = <<>> THEN 0 ELSE Head(g).h[field][s] + SumGroup(Tail(g), field, s)

\* C12: for a non-empty stack group, the stack total _draw_stack returns
\* holds in every slot the sum of the contents and the sum of the variances
\* of the histograms of the group, and exchanging any two histograms of the
\* group gives the same total.
C12_StackTotalSumsGroup ==
    \A k \in DOMAIN plots :
        LET st    == plots[k].stacked_hists
            total == plots[k].stack_total
        IN  st # <<>> =>
            /\ total # None
            /\ total = _draw_stack(st)
            /\ \A s \in Slots(total.nbins) :
                  /\ total.content[s] = SumGroup(st, "content", s)
                  /\ total.sumw2[s] = SumGroup(st, "sumw2", s)
            /\ \A j1, j2 \in DOMAIN st : _draw_stack(Swap(st, j1, j2)) = total

\* C12, witness: a plot whose stack group holds two histograms of different,
\* non-empty contents
C12_Witness ==
    \E k \in DOMAIN plots :
        LET st == plots[k].stacked_hists
        IN  /\ Len(st) = 2
            /\ st[1].h # st[2].h
            /\ Integral(st[1].h) > 0 /\ Integral(st[2].h) > 0
            /\ plots[k].stack_total # None

----------------------------------------------------------------------------
(* The panel functions, called on their own *)

\* SpecFunc: the panel functions over the histograms of every small dataset,
\* whose weights may be negative
FuncEvents   == [x : {0, 1, 2}, w : {-1, 1, MaxW}]
FuncDatasets == {E \in SUBSET FuncEvents : Cardinality(E) <= MaxEvents}

InitFunc ==
    /\ regions = <<>>
    /\ histograms = <<>>
    /\ histograms2D = <<>>
    /\ processes = <<>>
    /\ unique_processes = <<>>
    /\ panels = <<>>
    /\ log = <<>>
    /\ pc = "idle"
    /\ cursor = 0
    /\ raised = NoException
    /\ output_file = <<>>
    /\ plots = <<>>
    /\ trace = <<>>
    /\ runs = 0
    /\ first_run = <<>>
    /\ heap = DefaultLists
    /\ plotters = 1
    /\ \E n \in 1..MaxBins : \E A, B \in FuncDatasets :
          call = [NoCall EXCEPT !.hists = <<Histo1D(A, "", BinningOf(n)), Histo1D(B, "", BinningOf(n))>>]

CallErrorBand ==
    /\ call.func = ""
    /\ call' = ErrorBandCall(<<call.hists[1]>>)
    /\ UNCHANGED <<heap, plotters, confVars, log, pc, cursor, raised, output_file, plots, trace, runs, first_run>>

CallDivide ==
    /\ call.func = ""
    /\ call' = DivideCall(call.hists)
    /\ UNCHANGED <<heap, plotters, confVars, log, pc, cursor, raised, output_file, plots, trace, runs, first_run>>

\* C13: _error_band applied to a histogram a returns, in every in-range bin,
\* content 1 where a's content is greater than 0 and content 0 elsewhere,
\* bins of negative content included.
C13_ErrorBandContentIsOneOrZero ==
    call.func = "_error_band" =>
        LET a == call.hists[1]
        IN  \A s \in 1..a.nbins :
                call.returned.content[s] = IF a.content[s] > 0 THEN Frac(1, 1) ELSE Frac(0, 1)

\* the bin error e divided by the content c, as the number it is the root of
ErrorOver(e, c) == [root_of |-> Frac(e.root_of, c * c)]

\* C14: _error_band applied to a histogram a returns, in every in-range bin
\* where a's content is greater than 0, an error equal to a's bin error
\* divided by a's bin content, and content 0 in every in-range bin where a's
\* content is 0; a itself is as it was before the call.
C14_ErrorBandErrorIsRelative ==
    call.func = "_error_band" =>
        LET a == call.hists[1]
        IN  /\ \A s \in 1..a.nbins :
                  /\ a.content[s] > 0 =>
                        GetBinError(call.returned, s) = ErrorOver(GetBinError(a, s), GetBinContent(a, s))
                  /\ a.content[s] = 0 => call.returned.content[s] = Frac(0, 1)
            /\ call.after = call.hists

\* C14, witness: the band of a histogram with a bin of content above 1 and a
\* non-zero error, and with an empty bin
C14_Witness ==
    /\ call.func = "_error_band"
    /\ \E s \in 1..call.hists[1].nbins :
          call.hists[1].content[s] > 1 /\ call.hists[1].sumw2[s] > 0
    /\ \E s \in 1..call.hists[1].nbins : call.hists[1].content[s] = 0

\* C15: _divide applied to (a, b) of the same binning returns, in every slot,
\* content a/b where b's content is not 0 and content 0 where it is 0, and
\* a and b are as they were before the call.
C15_DivideIsGuardedQuotient ==
    call.func = "_divide" =>
        LET a == call.hists[1]
            b == call.hists[2]
        IN  /\ \A s \in Slots(a.nbins) :
                  LET q == call.returned.content[s]
                  IN  IF b.content[s] = 0 THEN q = Frac(0, 1)
                      ELSE q.den > 0 /\ q.num * b.content[s] = a.content[s] * q.den
            /\ call.after = call.hists

\* C15, witness: a quotient with a bin where b is 0 and a is not, and a bin
\* where a/b is a negative fraction
C15_Witness ==
    /\ call.func = "_divide"
    /\ \E s \in Slots(call.hists[1].nbins) :
          call.hists[2].content[s] = 0 /\ call.hists[1].content[s] # 0
    /\ \E s \in Slots(call.hists[1].nbins) :
          call.returned.content[s].num < 0 /\ call.returned.content[s].den > 1

----------------------------------------------------------------------------
(* The ratio of the analysis package (src/python/analysis), which passes an
   error option to the divide *)

\* TH1.Divide(h1, h2, 1.0, 1.0, option): the quotient h1/h2 with the variance
\* of option "" (independent errors) or of option "B" (binomial errors)
DivideOption(h1, h2, option) ==
    IF option # "B" THEN Divide(h1, h2)
    ELSE [nbins   |-> h1.nbins,
          content |-> Divide(h1, h2).content,
          sumw2   |-> [s \in Slots(h1.nbins) |->
                         LET b1 == h1.content[s]
                             b2 == h2.content[s]
                         IN  IF b2 = 0 \/ b1 = b2 THEN Frac(0, 1)
                             ELSE Frac(Abs((b2 * b2 - 2 * b1 * b2) * h1.sumw2[s] + b1 * b1 * h2.sumw2[s]),
                                       b2 * b2 * b2 * b2)]]

RatioConfig(numerator, denominator, error_option) ==
    [numerator |-> numerator, denominator |-> denominator, error_option |-> error_option]

\* the ratio histogram _make_plots of the analysis package computes
RatioCall(hists, ratio_config) ==
    [func |-> "ratio", hists |-> hists,
     returned |-> DivideOption(Clone(hists[1]), Clone(hists[2]), ratio_config.error_option),
     after |-> hists]

ErrorOptions == {"", "B"}
RatioConfigs == {RatioConfig("a", "b", o) : o \in ErrorOptions}

\* the panel elements that can be configured over two inputs
PanelElementConfigs ==
    {PanelElement(<<"a", "b">>, f, kBlack, st, TRUE) :
        f \in {"", "_divide", "_error_band"}, st \in {STACKED, LINE, POINTS}}

CallRatio ==
    /\ call.func = ""
    /\ \E ratio_config \in RatioConfigs : call' = RatioCall(call.hists, ratio_config)
    /\ UNCHANGED <<heap, plotters, confVars, log, pc, cursor, raised, output_file, plots, trace, runs, first_run>>

NextFunc ==
    \/ CallErrorBand
    \/ CallDivide
    \/ CallRatio

SpecFunc == InitFunc /\ [][NextFunc]_vars

\* the variances a panel element yields for the inputs of the call, if its
\* function returns
ElementVariances(element, hists) ==
    LET out == ApplyFunc(element.func, hists)
    IN  IF out.raise # NoRaise THEN {} ELSE {out.histogram.sumw2}

\* C16: the error rule of a ratio is selectable by configuration: for the
\* inputs of a divide, each of the options "" and "B" is obtained from some
\* configuration of the panel element (of the ratio, in the analysis
\* package), and the divide executed yields the variance of that option.
C16_ErrorRuleIsSelectable ==
    /\ call.func = "_divide" =>
          \A o \in ErrorOptions : \E element \in PanelElementConfigs :
              DivideOption(call.hists[1], call.hists[2], o).sumw2 \in ElementVariances(element, call.hists)
    /\ call.func = "ratio" =>
          \A o \in ErrorOptions : \E ratio_config \in RatioConfigs :
              /\ ratio_config.error_option = o
              /\ RatioCall(call.hists, ratio_config).returned.sumw2
                     = DivideOption(call.hists[1], call.hists[2], o).sumw2

----------------------------------------------------------------------------
(* SpecTemplate: registrations of processes that share names and differ in
   colour, style, error bars and label *)

kRed == 632
TemplateProcessPool ==
    {Process(n, DataA, c, st, eb, l) :
        n \in {"mc", "data"}, c \in {kBlack, kRed}, st \in {STACKED, POINTS},
        eb \in BOOLEAN, l \in {"mc", "alt"}}

NextTemplate == \E process \in TemplateProcessPool : add_process(process)

SpecTemplate == Init /\ [][NextTemplate]_vars

\* the first process registered under a name
FirstOf(name) ==
    processes[CHOOSE i \in DOMAIN processes :
                 /\ processes[i].name = name
                 /\ \A j \in DOMAIN processes : processes[j].name = name => i <= j]

\* the later registrations of a name whose field differs from the first's
Differing(field) ==
    {i \in DOMAIN processes : processes[i][field] # FirstOf(processes[i].name)[field]}

\* C17: the template kept for a name carries the colour, style, error-bars
\* flag and label of the first process registered under the name, there is
\* one template per registered name, and the log holds one warning for each
\* field in which a later registration differs from the first (so exactly
\* one for a registration that differs in colour only).
C17_TemplateKeepsFirstRegistration ==
    /\ Names(unique_processes) = Names(processes)
    /\ Len(unique_processes) = Cardinality(Names(processes))
    /\ \A k \in DOMAIN unique_processes :
          LET first == FirstOf(unique_processes[k].name)
          IN  unique_processes[k] =
                  ProcessTemplate(first.name, first.color, first.style, first.error_bars, first.label)
    /\ Logged(log, "different color") = Cardinality(Differing("color"))
    /\ Logged(log, "different style") = Cardinality(Differing("style"))
    /\ Logged(log, "different error bars") = Cardinality(Differing("error_bars"))
    /\ Logged(log, "different label") = Cardinality(Differing("label"))
    /\ Len(log) = Cardinality(Differing("color")) + Cardinality(Differing("style"))
                    + Cardinality(Differing("error_bars")) + Cardinality(Differing("label"))

\* C17, witness: two processes of one name that differ in colour only, one
\* warning logged
C17_Witness ==
    /\ Len(processes) = 2
    /\ processes[2] = [processes[1] EXCEPT !.color = kRed]
    /\ processes[1].color = kBlack
    /\ log = Warn("different color")
    /\ Len(unique_processes) = 1
    /\ unique_processes[1].color = kBlack

\* the region run() adds when none was declared
NominalRegion == Region("nominal", "", NoneList, NoneList, NoneList, NoneList)

\* the histogram the processes of a name fill with every one of their events
RECURSIVE UnfilteredSum(_, _, _)
UnfilteredSum(ps, name, binning) ==
    IF ps = <<>> THEN Reset(Histo1D({}, "", binning))
    ELSE IF Head(ps).name = name
    THEN Add(UnfilteredSum(Tail(ps), name, binning), Histo1D(Head(ps).df, "", binning))
    ELSE UnfilteredSum(Tail(ps), name, binning)

\* C18: a run started with no region declared uses exactly one region, named
\* "nominal", that has no row filter and no process or histogram filter, so
\* that each histogram spec is filled in "nominal" with every event of every
\* registered process that passes the spec's filter; a run started with a
\* declared region adds no "nominal" region.
C18_DefaultRegionIsNominal ==
    /\ runs >= 1 => regions # <<>>
    /\ "nominal" \in Names(regions) => regions = <<NominalRegion>>
    /\ (runs = 1 /\ Merged /\ regions = <<NominalRegion>>) =>
          \A i \in DOMAIN histograms :
              LET hist     == histograms[i]
                  expected == Names(_filter_processes(processes, hist.include_processes, hist.exclude_processes))
              IN  /\ MergedNames(hist, "nominal") = expected
                  /\ \A p \in expected :
                        _merge_hists(hist)["nominal"][p] = UnfilteredSum(processes, p, hist.binning)

\* the write stage of the current run is over
Written == pc \in {"make_plots", "done", "raised"}

\* the (spec, region, process) triples that have a merged histogram
MergedTriples ==
    {t \in (DOMAIN histograms) \X Names(regions) \X Names(unique_processes) :
        /\ t[2] \in DOMAIN histograms[t[1]].merged_histograms
        /\ t[3] \in DOMAIN histograms[t[1]].merged_histograms[t[2]]}

\* the writes of the output file made under the key of a triple
WritesOf(t) ==
    {k \in DOMAIN output_file :
        output_file[k].key = histograms[t[1]].name \o "_" \o t[2] \o "_" \o t[3]}

\* C19: in a run, every merged histogram of every (spec, region, process) is
\* written exactly once, under the key "{spec}_{region}_{process}", nothing
\* else is written, and every write comes after the merge of every spec and
\* before every plot.
C19_MergedWrittenOnceBetweenMergeAndPlots ==
    /\ Written =>
          /\ \A i \in DOMAIN histograms : \A r \in DOMAIN histograms[i].merged_histograms :
                /\ r \in Names(regions)
                /\ DOMAIN histograms[i].merged_histograms[r] \subseteq Names(unique_processes)
          /\ \A t \in MergedTriples :
                /\ Cardinality(WritesOf(t)) = 1
                /\ \A k \in WritesOf(t) :
                      /\ output_file[k].hist = histograms[t[1]].name
                      /\ output_file[k].region = t[2]
                      /\ output_file[k].proc = t[3]
          /\ Len(output_file) = Cardinality(MergedTriples)
          /\ Cardinality(Steps("write")) = Len(output_file)
    /\ \A w \in Steps("write") :
          /\ \A i \in DOMAIN histograms : \E m \in StepsOf("merge", histograms[i].name) : m < w
          /\ \A q \in Steps("plot") : w < q

\* C19, witness: a run has written the merged histograms of two processes
\* and of two specs, and has gone on to make a plot
C19_Witness ==
    /\ Written
    /\ Steps("plot") # {}
    /\ \E k1, k2 \in DOMAIN output_file :
          output_file[k1].proc # output_file[k2].proc /\ output_file[k1].hist = output_file[k2].hist
    /\ \E k1, k2 \in DOMAIN output_file : output_file[k1].hist # output_file[k2].hist

\* the steps of the current run that read bin contents
ReadSteps == Steps("merge") \cup Steps("fold") \cup Steps("write") \cup Steps("plot")

\* the fills booked for the histogram specs that are not realized
Unrealized ==
    UNION {{<<i, k>> : k \in {k \in DOMAIN histograms[i].histograms :
                                  ~histograms[i].histograms[k].realized}} :
              i \in DOMAIN histograms}

\* C20: in a run, the fills booked for all (region, process, spec)
\* combinations are realized by one batched evaluation, which is over before
\* merging, folding, writing or plotting reads any bin content.
C20_FillsRealizedInOneBatchBeforeReads ==
    /\ Cardinality(Steps("fill")) <= 1
    /\ \A k \in ReadSteps : \E f \in Steps("fill") : f < k
    /\ pc \in {"merge", "fold", "write", "make_plots", "done", "raised"} =>
          /\ Cardinality(Steps("fill")) = 1
          /\ Unrealized = {}
    /\ pc = "make_hists" => ReadSteps = {}

\* C20, witness: the merge is about to read the fills of two specs, booked
\* for two processes, all of them realized
C20_Witness ==
    /\ pc = "merge"
    /\ Len(histograms) = 2
    /\ \A i \in DOMAIN histograms :
          /\ Len(histograms[i].histograms) >= 2
          /\ \A k \in DOMAIN histograms[i].histograms : histograms[i].histograms[k].realized

\* the records of the log at the level ERROR
Errors == {k \in DOMAIN log : log[k].level = "ERROR"}

\* C21: after the merge, whenever the names merged for a region and a spec
\* selected for it differ from the expected names (the registered processes
\* that pass the region's and the spec's filters), an error has been logged.
C21_MergeMismatchLogsError ==
    Merged =>
        \A ri \in DOMAIN regions :
            LET region   == regions[ri]
                selected == _filter_histograms(histograms, region.include_histograms, region.exclude_histograms)
            IN  \A k \in DOMAIN selected :
                    MergedNames(selected[k], region.name) # ExpectedNames(selected[k], region)
                        => Errors # {}


\* the plots of the current run are being composed, or have been
Composing == pc \in {"make_plots", "done", "raised"}

\* what the merge and the fold of the run leave as the merged histograms of a spec
Staged(hist) ==
    _add_underflow_overflow([hist EXCEPT !.merged_histograms = _merge_hists(hist)]).merged_histograms

\* C22: once the composition of the plots has begun, the contents and the
\* variances of every merged histogram are those the merge and the fold left:
\* the partition, the ordering, the stack total and the built-in panel
\* functions act on copies, or only read.
C22_CompositionLeavesMerged ==
    Composing => \A i \in DOMAIN histograms : histograms[i].merged_histograms = Staged(histograms[i])

\* C22, witness: a plot is made whose panel divided a merged histogram, passed
\* as it is, by the total of a stack of merged histograms
C22_Witness ==
    /\ Composing
    /\ \E k \in DOMAIN plots :
          /\ plots[k].stack_total # None
          /\ plots[k].stacked_hists # <<>>
          /\ \E e \in DOMAIN plots[k].panel :
                /\ plots[k].panel[e] # None
                /\ PlotElements(k)[e].func = "_divide"
                /\ PlotElements(k)[e].values[1] = "data"


----------------------------------------------------------------------------
(* Panel objects constructed one after the other *)

\* a reference-line argument of the constructor: left out, or a new list
LineArguments(value) ==
    {[given |-> FALSE, list |-> <<>>]}
    \cup {[given |-> TRUE, list |-> [k \in 1..n |-> value]] : n \in 0..MaxLines}

\* the lists after the caller has made the list of an argument that is given
Allocate(hp, argument) == IF argument.given THEN Append(hp, argument.list) ELSE hp

\* Panel(elements, reference_line_heights=..., reference_line_colors=...)
NewPanel(heights, colors) ==
    /\ Len(panels) < MaxPanels
    /\ LET hp1 == Allocate(heap, heights)
           hr  == IF heights.given THEN Len(hp1) ELSE DefaultHeights
           hp2 == Allocate(hp1, colors)
           cr  == IF colors.given THEN Len(hp2) ELSE DefaultColors
           out == PanelInit(<<>>, hr, cr, hp2, log)
       IN  /\ panels' = Append(panels, out.panel)
           /\ heap' = out.heap
           /\ log' = out.log
           /\ call' = [func |-> "Panel", hists |-> <<hp2[hr], hp2[cr]>>,
                       returned |-> out.panel, after |-> <<Len(log)>>]
    /\ UNCHANGED <<regions, histograms, histograms2D, processes, unique_processes, pc, cursor,
                   raised, output_file, plots, trace, runs, first_run, plotters>>

InitLines == InitPlotter(<<>>)

NextLines ==
    \E heights \in LineArguments(1) : \E colors \in LineArguments(kRed) : NewPanel(heights, colors)

SpecLines == InitLines /\ [][NextLines]_vars

\* the lengths of the two lists the last constructor call was given
GivenHeights == Len(call.hists[1])
GivenColors  == Len(call.hists[2])
\* the construction logged a warning
WarnedByCall ==
    /\ Len(log) > call.after[1]
    /\ \A k \in (call.after[1] + 1)..Len(log) : log[k].level = "WARNING"
\* the lengths of the two lists of the Panel object the last call made
MadeHeights == Len(heap[call.returned.reference_line_heights])
MadeColors  == Len(heap[call.returned.reference_line_colors])

\* C23: a Panel constructed with reference_line_heights and
\* reference_line_colors of different lengths logs a warning, and afterwards
\* both of its lists have the length of the shorter of the two lists given.
C23_MismatchKeepsShorterLength ==
    (call.func = "Panel" /\ GivenHeights # GivenColors) =>
        /\ WarnedByCall
        /\ MadeHeights = IF GivenHeights < GivenColors THEN GivenHeights ELSE GivenColors
        /\ MadeColors  = IF GivenHeights < GivenColors THEN GivenHeights ELSE GivenColors

\* C23, as the code has it: a Panel constructed with lists of different
\* lengths logs a warning, and afterwards both of its lists have the length of
\* the reference_line_heights given (colours are padded, or truncated).
C23_MismatchKeepsHeightsLength ==
    (call.func = "Panel" /\ GivenHeights # GivenColors) =>
        /\ WarnedByCall
        /\ MadeHeights = GivenHeights
        /\ MadeColors  = GivenHeights

\* C23, witness: a Panel was constructed with more heights than colours, and
\* its colours were padded
C23_Witness ==
    /\ call.func = "Panel"
    /\ GivenHeights = MaxLines
    /\ GivenColors < MaxLines
    /\ MadeColors = MaxLines

\* C28: at every moment, the two reference-line lists of every Panel object
\* constructed so far have the same length, whatever Panels were constructed
\* after it, with or without the default arguments.
C28_PanelListsSameLength ==
    \A k \in DOMAIN panels :
        Len(heap[panels[k].reference_line_heights]) = Len(heap[panels[k].reference_line_colors])


----------------------------------------------------------------------------
(* Panel objects shared by the plotters of a session *)

SharedPanelPool ==
    {<<Panel(els)>> : els \in {<<Ratio("mc", "stack"), Ratio("data", "stack")>>,
                               <<Band("stack"), Ratio("data", "stack")>>}}
SharedProcessPool ==
    {Process("data", DataA, kBlack, POINTS, TRUE, "data"),
     Process("mc", DataB, kBlack, STACKED, TRUE, "mc")}
SharedHistogramPool ==
    {Histogram(n, BinningOf(MaxBins), 1, FALSE, FALSE, NoneList, NoneList) : n \in {"pt", "mass"}}
InitShared == \E pnls \in SharedPanelPool : InitPlotter(pnls)

NextShared ==
    \/ \E process \in SharedProcessPool : add_process(process)
    \/ \E histogram \in SharedHistogramPool : HistogramCalls < MaxHistograms /\ add_histogram(histogram)
    \/ RunStart
    \/ MakeHists
    \/ MergeHists
    \/ AddUnderflowOverflow
    \/ WriteOutput
    \/ MakePlot
    \/ Finish
    \/ NewPlotter

SpecShared == InitShared /\ [][NextShared]_vars

\* the inputs of element e of the panel of plot k, resolved for the plot's own
\* histogram spec and region
ResolvedFor(k, e) ==
    ResolveValues(PlotElements(k)[e].values, PlotMerged(k), plots[k].stack_total,
                  unique_processes, [value_hists |-> <<>>, log |-> <<>>, raise |-> NoRaise])

\* element e of the panel of plot k can be computed for the plot's own pair
Computable(k, e) ==
    /\ ResolvedFor(k, e).raise = NoRaise
    /\ \A i \in DOMAIN ResolvedFor(k, e).value_hists : ResolvedFor(k, e).value_hists[i] # None
    /\ ApplyFunc(PlotElements(k)[e].func, ResolvedFor(k, e).value_hists).raise = NoRaise

\* C24: in every plot, the histogram drawn for a panel element is the
\* element's function of the histograms and the stack total resolved for the
\* plot's own histogram spec and region, never a result of an earlier plot.
C24_PanelElementsOfSamePair ==
    \A k \in DOMAIN plots : \A e \in DOMAIN plots[k].panel :
        /\ Computable(k, e)
        /\ plots[k].panel[e] = ApplyFunc(PlotElements(k)[e].func, ResolvedFor(k, e).value_hists).histogram


----------------------------------------------------------------------------
(* The filters called on their own *)

\* an Optional[List[str]] over the names S: None, or a list, which may be empty
OptionalLists(S) == {NoneList} \cup {ListOf(T) : T \in SUBSET S}

\* the registered processes (names may repeat) and histogram specs (names do not)
FilterProcesses ==
    UNION {[1..n -> {Process(name, DataA, kBlack, StyleOf(name), TRUE, name) : name \in {"data", "mc"}}] :
              n \in 0..MaxProcesses}
FilterHistograms ==
    {hs \in UNION {[1..n -> {Histogram(name, BinningOf(1), 0, FALSE, FALSE, NoneList, NoneList) :
                                name \in {"pt", "mass"}}] : n \in 0..MaxHistograms} :
        \A i, j \in DOMAIN hs : hs[i].name = hs[j].name => i = j}

InitFilter ==
    /\ regions = <<>>
    /\ histograms \in FilterHistograms
    /\ histograms2D = <<>>
    /\ processes \in FilterProcesses
    /\ unique_processes = <<>>
    /\ panels = <<>>
    /\ log = <<>>
    /\ pc = "idle"
    /\ cursor = 0
    /\ raised = NoException
    /\ output_file = <<>>
    /\ plots = <<>>
    /\ trace = <<>>
    /\ runs = 0
    /\ first_run = <<>>
    /\ heap = DefaultLists
    /\ plotters = 1
    /\ \E include, exclude \in OptionalLists({"data", "pt"}) :
          call = [NoCall EXCEPT !.hists = <<include, exclude>>]

\* self._filter_processes(self.processes, include, exclude)
CallFilterProcesses ==
    /\ call.func = ""
    /\ call' = [call EXCEPT !.func = "_filter_processes",
                            !.returned = _filter_processes(processes, call.hists[1], call.hists[2])]
    /\ log' = log \o FilterWarning(_filter_processes(processes, call.hists[1], call.hists[2]),
                                   "no processes found after filtering")
    /\ UNCHANGED <<heap, plotters, confVars, pc, cursor, raised, output_file, plots, trace, runs, first_run>>

\* self._filter_histograms(self.histograms, include, exclude)
CallFilterHistograms ==
    /\ call.func = ""
    /\ call' = [call EXCEPT !.func = "_filter_histograms",
                            !.returned = _filter_histograms(histograms, call.hists[1], call.hists[2])]
    /\ log' = log \o FilterWarning(_filter_histograms(histograms, call.hists[1], call.hists[2]),
                                   "no histograms found after filtering")
    /\ UNCHANGED <<heap, plotters, confVars, pc, cursor, raised, output_file, plots, trace, runs, first_run>>

NextFilter == CallFilterProcesses \/ CallFilterHistograms

SpecFilter == InitFilter /\ [][NextFilter]_vars

\* the entries a filter is to keep, in their order
Kept(entries, include, exclude) ==
    IF ~include.is_none THEN SelectSeq(entries, LAMBDA e : e.name \in include.names)
    ELSE IF ~exclude.is_none THEN SelectSeq(entries, LAMBDA e : e.name \notin exclude.names)
    ELSE entries

\* C25: _filter_processes and _filter_histograms keep every entry only when
\* the include list is None; an include list that is given keeps exactly the
\* entries it names (none when it is empty); with no include list, an exclude
\* list keeps exactly the entries it does not name.
C25_FiltersKeepNamedEntries ==
    /\ call.func = "_filter_processes" => call.returned = Kept(processes, call.hists[1], call.hists[2])
    /\ call.func = "_filter_histograms" => call.returned = Kept(histograms, call.hists[1], call.hists[2])


\* C26: folding conserves the totals: whatever the underflow and overflow
\* flags of a spec, the sum of the contents and the sum of the variances over
\* all n+2 slots of each of its merged histograms are after
\* _add_underflow_overflow what they were before it, also when n = 1.
C26_FoldConservesTotals ==
    Folded =>
        \A i \in DOMAIN histograms :
            LET hist == histograms[i]
                n    == hist.binning.nbins
                pre  == _merge_hists(hist)
                post == hist.merged_histograms
            IN  \A r \in DOMAIN post : \A p \in DOMAIN post[r] :
                    /\ SumSlots(post[r][p].content, Slots(n)) = SumSlots(pre[r][p].content, Slots(n))
                    /\ SumSlots(post[r][p].sumw2, Slots(n)) = SumSlots(pre[r][p].sumw2, Slots(n))


----------------------------------------------------------------------------
(* Names that contain the separator of the keys *)

KeyProcessPool ==
    {Process(name, DataB, kBlack, STACKED, TRUE, name) : name \in {"mc", "sr_mc"}}
KeyHistogramPool ==
    {Histogram(name, BinningOf(1), 0, FALSE, FALSE, NoneList, NoneList) : name \in {"pt", "pt_sr"}}
KeyRegionPool ==
    {Region(name, "", NoneList, NoneList, NoneList, NoneList) : name \in {"sr", "cr"}}

NextKeys ==
    \/ \E process \in KeyProcessPool : add_process(process)
    \/ \E histogram \in KeyHistogramPool : HistogramCalls < MaxHistograms /\ add_histogram(histogram)
    \/ \E region \in KeyRegionPool : RegionCalls < MaxRegions /\ add_region(region)
    \/ RunStart
    \/ MakeHists
    \/ MergeHists
    \/ AddUnderflowOverflow
    \/ WriteOutput
    \/ MakePlot
    \/ Finish

SpecKeys == Init /\ [][NextKeys]_vars

\* C27: the histograms that run() persists for two different (histogram spec,
\* region, process) triples are written under two different keys, whatever
\* the names registered (names that contain underscores included).
C27_DistinctTriplesDistinctKeys ==
    \A k1, k2 \in DOMAIN output_file :
        <<output_file[k1].hist, output_file[k1].region, output_file[k1].proc>>
            # <<output_file[k2].hist, output_file[k2].region, output_file[k2].proc>>
        => output_file[k1].key # output_file[k2].key


----------------------------------------------------------------------------
(* Registrations of regions and histogram specs under names in use *)

NameRegionPool ==
    {Region(name, sel, NoneList, NoneList, NoneList, NoneList) : name \in {"sr", "cr"}, sel \in {"", "x>=2"}}
NameHistogramPool ==
    {Histogram(name, BinningOf(n), 0, FALSE, FALSE, NoneList, NoneList) :
        name \in {"pt", "mass"}, n \in {1, MaxBins}}
NameHistogram2DPool ==
    {Histogram2D(name, BinningOf(n), BinningOf(1), pn, NoneList, NoneList) :
        name \in {"pt", "pt_mass"}, n \in {1, MaxBins}, pn \in {0, 1}}

InitNames == InitPlotter(<<Panel(<<Ratio("data", "stack")>>)>>)

\* the registrations made so far
NameCalls == RegionCalls + HistogramCalls + Histogram2DCalls

NextNames ==
    /\ NameCalls < MaxAdds
    /\ \/ \E region \in NameRegionPool : add_region(region)
       \/ \E histogram \in NameHistogramPool : add_histogram(histogram)
       \/ \E histogram \in NameHistogram2DPool : add_histogram2D(histogram)

SpecNames == InitNames /\ [][NextNames]_vars

\* no two entries of a list share a name
UniqueNames(s) == \A i, j \in DOMAIN s : s[i].name = s[j].name => i = j

\* a call that registers an entry leaves the list without the entries of that
\* name it held, the others as they were and in their order, and the new entry
\* at its end
Registers(old, new) ==
    new # old => new = Append(RemoveName(old, new[Len(new)].name), new[Len(new)])

\* C29: after any add_histogram and add_region calls no two 1D specs, no two
\* 2D specs and no two regions share a name; a call under a name in use removes
\* the earlier entry and keeps the new one, and leaves the other entries as
\* they were.
C29_NamesStayUnique ==
    /\ [](UniqueNames(regions) /\ UniqueNames(histograms) /\ UniqueNames(histograms2D))
    /\ [][/\ Registers(regions, regions')
          /\ Registers(histograms, histograms')
          /\ Registers(histograms2D, histograms2D')]_vars

\* C29, witness: a 1D spec was registered under a name in use, with another
\* binning than the entry it replaces, beside an entry of another name
C29_Witness ==
    /\ Logged(log, "histogram already exists") > 0
    /\ Len(histograms) > 1
    /\ histograms[1].binning # histograms[Len(histograms)].binning


\* the names of a sequence of processes, each once, in the order of their
\* first occurrence
RECURSIVE FirstNames(_)
FirstNames(ps) ==
    IF ps = <<>> THEN <<>>
    ELSE LET front == FirstNames(SubSeq(ps, 1, Len(ps) - 1))
             name  == ps[Len(ps)].name
         IN  IF name \in SeqToSet(front) THEN front ELSE Append(front, name)

\* C30: after any add_process calls, unique_processes holds one template for
\* each name that occurs in processes, in the order in which the names were
\* first registered; and every call appends its Process to processes, whether
\* its name had a template or not.
C30_TemplatesInFirstRegistrationOrder ==
    /\ []([k \in DOMAIN unique_processes |-> unique_processes[k].name] = FirstNames(processes))
    /\ [][/\ Len(processes') = Len(processes) + 1
          /\ processes' = Append(processes, processes'[Len(processes')])
          /\ processes'[Len(processes')] \in TemplateProcessPool]_vars

\* C30, witness: a process was appended under a name that had a template:
\* the processes are more than the templates
C30_Witness ==
    /\ Len(processes) = MaxProcesses
    /\ Len(unique_processes) = 1
    /\ processes[1].name = processes[Len(processes)].name
    /\ processes[1] # processes[Len(processes)]
====
